---- MODULE Spec2Model ----
(***************************************************************************)
(* A model of include/mysqlx/common.h: the value types `bytes`, `string`,  *)
(* `GUID` and `Error`, and the CATCH_AND_WRAP exception boundary.          *)
(*                                                                         *)
(* Each component has its own specification (SpecBytes, SpecGuid, SpecErr, *)
(* SpecStr); the variables of the other components stay at their initial   *)
(* value.                                                                  *)
(***************************************************************************)
EXTENDS Integers, Sequences, FiniteSets

VARIABLES
  mem,      \* the caller's memory: address -> byte (address 0 is NULL)
  view,     \* a bytes object: the inherited pair (first, second)
  call,     \* the constructor that built `view`, with its arguments
  m_data,   \* GUID::m_data, char[32], indexed 0..31
  guid,     \* how the GUID was constructed, the texts it was given, set()'s accesses
  exc,      \* the exception in flight at a CATCH_AND_WRAP boundary
  thrown,   \* the exception as thrown inside the innermost guarded block
  depth,    \* number of CATCH_AND_WRAP boundaries the exception has passed
  wstr,     \* mysqlx::string: the inherited std::wstring, a sequence of code units
  utf8,     \* the last std::string produced by / given to a utf-8 conversion
  strpc     \* the last string operation, and the text the string was constructed from

vars == <<mem, view, call, m_data, guid, exc, thrown, depth, wstr, utf8, strpc>>

bytesVars == <<view, call>>
guidVars  == <<m_data, guid>>
errVars   == <<exc, thrown, depth>>
strVars   == <<wstr, utf8, strpc>>

(***************************************************************************)
(* Bounds of the model.                                                    *)
(***************************************************************************)
\* size_t and pointers are WordMod-valued words (arithmetic wraps modulo WordMod).
WordMod == 8
\* The caller's memory holds bytes at addresses 1..MemSize.
MemSize == 4

(***************************************************************************)
(* Memory and C strings.                                                   *)
(***************************************************************************)
NULL == 0

\* Byte values the caller's memory may hold: the terminator, 'a', 'b'.
MemBytes == {0, 97, 98}

Addr == 0 .. (WordMod - 1)

\* Addresses of the caller's buffer; the last byte is a terminator, so every
\* address in it is the start of a null-terminated text.
TextPtrs == 1 .. MemSize

Memories == { m \in [TextPtrs -> MemBytes] : m[MemSize] = 0 }

\* strlen(3): the number of bytes before the first terminator.
RECURSIVE strlen(_, _)
strlen(m, str) == IF m[str] = 0 THEN 0 ELSE 1 + strlen(m, str + 1)

\* The text a const char* points to, as the sequence of bytes before the terminator.
c_str_text(m, str) == [i \in 1 .. strlen(m, str) |-> m[str + i - 1]]

\* Conversion of a (possibly negative) integer result to size_t.
to_size_t(n) == (n + WordMod) % WordMod

(***************************************************************************)
(* class bytes : public std::pair<byte*, size_t>                           *)
(***************************************************************************)
\* Mutant: the second pointer stored as the length.
bytes_ptr_ptr_EndAsLength(beg_, end_) == [first |-> beg_, second |-> end_]

\* bytes(byte *beg_, byte *end_) : pair(beg_, end_ - beg_)
bytes_ptr_ptr(beg_, end_) == [first |-> beg_, second |-> to_size_t(end_ - beg_)]

\* Mutant: a null pointer's length forced to 0.
bytes_ptr_len_NullChecked(beg, len) ==
  [first |-> beg, second |-> IF beg = NULL THEN 0 ELSE len]

\* bytes(byte *beg, size_t len) : pair(beg, len)
bytes_ptr_len(beg, len) == [first |-> beg, second |-> len]

\* Mutant: the scan counts the terminator too.
bytes_cstr_CountsTerminator(m, str) ==
  [first |-> str, second |-> IF NULL # str THEN strlen(m, str) + 1 ELSE 0]

\* bytes(const char *str) : pair((byte*)str,0) { if (NULL != str) second = strlen(str); }
bytes_cstr(m, str) ==
  [first |-> str, second |-> IF NULL # str THEN strlen(m, str) ELSE 0]

\* bytes(std::pair<byte*, size_t> buf) : pair(buf)
bytes_pair(buf) == [first |-> buf[1], second |-> buf[2]]

\* bytes() : pair(NULL, 0)
bytes_default == [first |-> NULL, second |-> 0]

\* virtual byte* begin() const { return first; }
begin(v) == v.first

\* virtual byte* end() const { return first + second; }
end(v) == (v.first + v.second) % WordMod

\* size_t length() const { return second; }
length(v) == v.second

\* size_t size() const { return length(); }
size(v) == length(v)

NoCall == [ctor |-> "none", a |-> 0, b |-> 0]

\* The constructor tests nothing: it runs for every pair of pointers.
BytesFromRange(beg_, end_) ==
  /\ view' = bytes_ptr_ptr(beg_, end_)
  /\ call' = [ctor |-> "ptr_ptr", a |-> beg_, b |-> end_]
  /\ UNCHANGED <<mem, guidVars, errVars, strVars>>

BytesFromPtrLen(beg, len) ==
  /\ view' = bytes_ptr_len(beg, len)
  /\ call' = [ctor |-> "ptr_len", a |-> beg, b |-> len]
  /\ UNCHANGED <<mem, guidVars, errVars, strVars>>

BytesFromText(str) ==
  /\ view' = bytes_cstr(mem, str)
  /\ call' = [ctor |-> "cstr", a |-> str, b |-> 0]
  /\ UNCHANGED <<mem, guidVars, errVars, strVars>>

BytesFromPair(buf) ==
  /\ view' = bytes_pair(buf)
  /\ call' = [ctor |-> "pair", a |-> buf[1], b |-> buf[2]]
  /\ UNCHANGED <<mem, guidVars, errVars, strVars>>

BytesDefault ==
  /\ view' = bytes_default
  /\ call' = [ctor |-> "default", a |-> 0, b |-> 0]
  /\ UNCHANGED <<mem, guidVars, errVars, strVars>>

(***************************************************************************)
(* class GUID                                                              *)
(***************************************************************************)
\* char m_data[32]: sizeof(m_data).
GuidSize == 32

\* Longest text handed to a GUID.
MaxTextLen == 34
\* Most assignments made to one GUID after its construction.
MaxOps == 2

GuidIdx == 0 .. (GuidSize - 1)

\* A text of len bytes, none of them zero, whose bytes differ from position to
\* position: 'a' + ((i + k) mod 26) at index i.
Text(len, k) == [i \in 1 .. len |-> 97 + ((i - 1 + k) % 26)]

TextLens == {0, 3, 10, 20} \cup ((GuidSize - 1) .. MaxTextLen)

GuidTexts == { Text(len, k) : len \in TextLens, k \in 0 .. 1 }

\* What the storage of a GUID may hold before any constructor has written it.
GarbageBytes == {0, 204}
Uninitialized == { [i \in GuidIdx |-> g] : g \in GarbageBytes }

\* What the memory after a text's terminator may hold.
JunkBytes == {0, 97}

\* data[i] for the null-terminated text `data`: its bytes, then the terminator,
\* then whatever the memory after it holds.
char_at(data, i, junk) ==
  IF i < Len(data) THEN data[i + 1] ELSE IF i = Len(data) THEN 0 ELSE junk

\* Mutant: the bound test is i <= sizeof(m_data).
RECURSIVE set_loop_OffByOne(_, _, _, _, _, _)
set_loop_OffByOne(data, junk, buf, i, rd, wr) ==
  IF char_at(data, i, junk) # 0 /\ i <= GuidSize
    THEN set_loop_OffByOne(data, junk,
                  [j \in DOMAIN buf \cup {i} |->
                     IF j = i THEN char_at(data, i, junk) ELSE buf[j]],
                  i + 1, rd \cup {i}, wr \cup {i})
    ELSE [m_data |-> [j \in GuidIdx |-> buf[j]], rd |-> rd \cup {i}, wr |-> wr]

\* The loop of set(): each round evaluates data[i] first, then i < sizeof(m_data).
\* rd and wr collect the indexes of data read and of m_data written.
RECURSIVE set_loop(_, _, _, _, _, _)
set_loop(data, junk, buf, i, rd, wr) ==
  IF char_at(data, i, junk) # 0 /\ i < GuidSize
    THEN set_loop(data, junk, [buf EXCEPT ![i] = char_at(data, i, junk)],
                  i + 1, rd \cup {i}, wr \cup {i})
    ELSE [m_data |-> buf, rd |-> rd \cup {i}, wr |-> wr]

\* void set(const char *data)
\*   { for(unsigned i=0; data[i] && i < sizeof(m_data); ++i) m_data[i]= data[i]; }
set(data, junk, buf) == set_loop(data, junk, buf, 0, {}, {})

\* GUID() { memset(m_data, 0, sizeof(m_data)); }
GUID_default == [i \in GuidIdx |-> 0]

\* template <typename T> GUID(T data) { set(data); }
\* m_data has no initializer: set() writes into whatever the storage held.
GUID_from(data, junk, storage) == set(data, junk, storage)

\* operator std::string() const { return std::string(m_data, m_data + sizeof(m_data)); }
GUID_to_string(buf) == [i \in 1 .. GuidSize |-> buf[i - 1]]

\* Values generate() may leave in m_data: 32 printable bytes (decimal digits).
GeneratedIds == { [i \in GuidIdx |-> 48 + ((i * k) % 10)] : k \in {1, 3} }

\* last: the last operation on the GUID; gen: generate() was called on it.
NoGuid == [ctor |-> "none", text |-> <<>>, ops |-> 0, rd |-> {}, wr |-> {},
           last |-> "none", gen |-> FALSE]

GuidCtorDefault ==
  /\ m_data' = GUID_default
  /\ guid' = [ctor |-> "default", text |-> <<>>, ops |-> 0, rd |-> {}, wr |-> {},
              last |-> "ctor", gen |-> FALSE]
  /\ UNCHANGED <<mem, bytesVars, errVars, strVars>>

GuidCtorText(data, junk, storage) ==
  LET r == GUID_from(data, junk, storage)
  IN  /\ m_data' = r.m_data
      /\ guid' = [ctor |-> "text", text |-> data, ops |-> 0, rd |-> r.rd, wr |-> r.wr,
                  last |-> "set", gen |-> FALSE]
      /\ UNCHANGED <<mem, bytesVars, errVars, strVars>>

\* template<typename T> GUID& operator=(T data) { set(data); return *this; }
GuidAssign(data, junk) ==
  /\ guid.ctor # "none"
  /\ guid.ops < MaxOps
  /\ LET r == set(data, junk, m_data)
     IN  /\ m_data' = r.m_data
         /\ guid' = [guid EXCEPT !.text = data, !.ops = guid.ops + 1,
                                 !.rd = r.rd, !.wr = r.wr, !.last = "set"]
  /\ UNCHANGED <<mem, bytesVars, errVars, strVars>>

\* void generate(): fills m_data with a freshly generated value.
GuidGenerate(id) ==
  /\ guid.ctor # "none"
  /\ m_data' = id
  /\ guid' = [guid EXCEPT !.last = "generate", !.gen = TRUE]
  /\ UNCHANGED <<mem, bytesVars, errVars, strVars>>

(***************************************************************************)
(* class Error, throw_error() and the CATCH_AND_WRAP boundary              *)
(***************************************************************************)
\* Most nested CATCH_AND_WRAP boundaries an exception passes.
MaxDepth == 3
\* Longest message of a foreign exception.
MaxMsgLen == 2

\* Sequences of at most n elements of S.
SeqsUpTo(S, n) == UNION { [1 .. k -> S] : k \in 0 .. n }

\* "Unknown exception"
UnknownException ==
  <<85, 110, 107, 110, 111, 119, 110, 32, 101, 120, 99, 101, 112, 116, 105, 111, 110>>

ErrorType == "mysqlx::Error"

\* Exception classes other than Error that derive from std::exception.
StdExceptionTypes == {"std::runtime_error", "std::out_of_range", "std::logic_error"}

\* Thrown types that are neither a std::exception nor a const char*.
OtherTypes == {"int", "std::string"}

NoExc == [type |-> "none", msg |-> <<>>, ptr |-> NULL]

\* The first terminator of a byte sequence, or its length + 1 when it has none.
RECURSIVE first_nul(_, _)
first_nul(s, i) == IF i > Len(s) \/ s[i] = 0 THEN i ELSE first_nul(s, i + 1)

\* std::exception::what(): the stored message as a null-terminated text.
what(e) == SubSeq(e.msg, 1, first_nul(e.msg, 1) - 1)

\* An Error holding the text msg.
Error(msg) == [type |-> ErrorType, msg |-> msg, ptr |-> NULL]

\* "basic_string::_S_construct null not valid"
NullStringMessage ==
  <<98, 97, 115, 105, 99, 95, 115, 116, 114, 105, 110, 103, 58, 58, 95, 83, 95,
    99, 111, 110, 115, 116, 114, 117, 99, 116, 32, 110, 117, 108, 108, 32, 110,
    111, 116, 32, 118, 97, 108, 105, 100>>

\* What std::runtime_error(msg) does with a null msg: the std::string it builds
\* from the pointer throws std::logic_error instead.
NullMessageOutcomes ==
  { [type |-> "std::logic_error", msg |-> NullStringMessage, ptr |-> NULL] }

\* throw ::mysqlx::Error(msg), Error(const char *msg) : std::runtime_error(msg):
\* the exceptions the statement may throw.
throw_Error(m, msg) ==
  IF msg = NULL THEN NullMessageOutcomes ELSE { Error(c_str_text(m, msg)) }

\* Mutant: without the const char* clause, a thrown text reaches the catch-all.
CATCH_AND_WRAP_NoTextClause(m, e) ==
  IF e.type = ErrorType THEN {e}
  ELSE IF e.type \in StdExceptionTypes THEN {Error(what(e))}
  ELSE {Error(UnknownException)}

\* catch (const ::mysqlx::Error&) { throw; }
\* catch (const std::exception &e) { throw ::mysqlx::Error(e.what()); }
\* catch (const char *e) { throw ::mysqlx::Error(e); }
\* catch (...) { throw ::mysqlx::Error("Unknown exception"); }
\* The exceptions that may leave the boundary when e reaches it.
CATCH_AND_WRAP(m, e) ==
  IF e.type = ErrorType THEN {e}
  ELSE IF e.type \in StdExceptionTypes THEN {Error(what(e))}
  ELSE IF e.type = "const char*" THEN throw_Error(m, e.ptr)
  ELSE {Error(UnknownException)}

\* void throw_error(const char *msg) { throw ::mysqlx::Error(msg); }
throw_error(m, msg) == throw_Error(m, msg)

\* Foreign exceptions: a std::exception holding any std::string, a const char*
\* (a text, or null), a value of another type.
ForeignExceptions ==
  { [type |-> t, msg |-> s, ptr |-> NULL] :
      t \in StdExceptionTypes, s \in SeqsUpTo(MemBytes, MaxMsgLen) }
  \cup { [type |-> "const char*", msg |-> <<>>, ptr |-> p] : p \in {NULL} \cup TextPtrs }
  \cup { [type |-> t, msg |-> <<>>, ptr |-> NULL] : t \in OtherTypes }

\* The guarded block calls throw_error(msg) (also what THROW(MSG) does).
ThrowError(msg) ==
  /\ exc = NoExc
  /\ exc' \in throw_error(mem, msg)
  /\ thrown' = exc'
  /\ depth' = 0
  /\ UNCHANGED <<mem, bytesVars, guidVars, strVars>>

\* The guarded block, or something it calls, throws anything else.
ThrowForeign(e) ==
  /\ exc = NoExc
  /\ exc' = e
  /\ thrown' = e
  /\ depth' = 0
  /\ UNCHANGED <<mem, bytesVars, guidVars, strVars>>

\* The exception in flight reaches the next enclosing try { ... } CATCH_AND_WRAP.
Boundary ==
  /\ exc # NoExc
  /\ depth < MaxDepth
  /\ exc' \in CATCH_AND_WRAP(mem, exc)
  /\ depth' = depth + 1
  /\ UNCHANGED <<mem, thrown, bytesVars, guidVars, strVars>>

\* The caller outside the boundaries handles the exception.
Handled ==
  /\ exc # NoExc
  /\ depth >= 1
  /\ exc' = NoExc
  /\ thrown' = NoExc
  /\ depth' = 0
  /\ UNCHANGED <<mem, bytesVars, guidVars, strVars>>

(***************************************************************************)
(* class string : public std::wstring                                      *)
(*                                                                         *)
(* string(const std::string&) and operator std::string() are declared in   *)
(* common.h and defined elsewhere; the conversions below follow the        *)
(* specification: UTF-8 on the narrow side, UTF-16 code units (surrogate   *)
(* pairs outside the basic multilingual plane) on the wide side, and an    *)
(* error on malformed input.                                               *)
(***************************************************************************)
\* Longest sequence of code points held by a string.
MaxCpLen == 2

\* Code points at the edges of each encoded length: U+0041, U+007F, U+0080,
\* U+00E9, U+07FF, U+0800, U+D7FF, U+E000, U+FFFF, U+10000, U+1F600, U+10FFFF.
CodePoints ==
  {65, 127, 128, 233, 2047, 2048, 55295, 57344, 65535, 65536, 128512, 1114111}

CodePointSeqs == SeqsUpTo(CodePoints, MaxCpLen)

IsHighSurrogate(u) == u >= 55296 /\ u <= 56319
IsLowSurrogate(u)  == u >= 56320 /\ u <= 57343
IsSurrogate(u)     == u >= 55296 /\ u <= 57343
IsContinuation(b)  == b >= 128 /\ b <= 191

Fail == [ok |-> FALSE, val |-> <<>>]
Ok(v) == [ok |-> TRUE, val |-> v]

\* The wide code units of one code point.
wide_units(c) ==
  IF c < 65536 THEN <<c>>
  ELSE <<55296 + ((c - 65536) \div 1024), 56320 + ((c - 65536) % 1024)>>

\* The wide text holding the code points S.
RECURSIVE to_wide(_)
to_wide(S) == IF S = <<>> THEN <<>> ELSE wide_units(Head(S)) \o to_wide(Tail(S))

\* The code points of a wide text; fails on an unpaired surrogate.
RECURSIVE wide_code_points(_)
wide_code_points(w) ==
  IF w = <<>> THEN Ok(<<>>)
  ELSE IF IsHighSurrogate(w[1])
    THEN IF Len(w) >= 2 /\ IsLowSurrogate(w[2])
           THEN LET rest == wide_code_points(SubSeq(w, 3, Len(w)))
                    c == 65536 + (w[1] - 55296) * 1024 + (w[2] - 56320)
                IN  IF rest.ok THEN Ok(<<c>> \o rest.val) ELSE Fail
           ELSE Fail
  ELSE IF IsLowSurrogate(w[1]) THEN Fail
  ELSE LET rest == wide_code_points(Tail(w))
       IN  IF rest.ok THEN Ok(<<w[1]>> \o rest.val) ELSE Fail

\* Mutant: a code point outside the basic multilingual plane is cut to 16 bits.
utf8_bytes_BmpOnly(c) ==
  LET d == c % 65536
  IN  IF d < 128 THEN <<d>>
      ELSE IF d < 2048 THEN <<192 + (d \div 64), 128 + (d % 64)>>
      ELSE <<224 + (d \div 4096), 128 + ((d \div 64) % 64), 128 + (d % 64)>>

\* The UTF-8 bytes of one code point.
utf8_bytes(c) ==
  IF c < 128 THEN <<c>>
  ELSE IF c < 2048 THEN <<192 + (c \div 64), 128 + (c % 64)>>
  ELSE IF c < 65536
    THEN <<224 + (c \div 4096), 128 + ((c \div 64) % 64), 128 + (c % 64)>>
  ELSE <<240 + (c \div 262144), 128 + ((c \div 4096) % 64),
         128 + ((c \div 64) % 64), 128 + (c % 64)>>

RECURSIVE utf8_of_code_points(_)
utf8_of_code_points(S) ==
  IF S = <<>> THEN <<>> ELSE utf8_bytes(Head(S)) \o utf8_of_code_points(Tail(S))

\* operator std::string() const: conversion to utf-8.
string_to_utf8(w) ==
  LET cps == wide_code_points(w)
  IN  IF cps.ok THEN Ok(utf8_of_code_points(cps.val)) ELSE Fail

\* The code point at the head of a UTF-8 byte sequence and the number of bytes it
\* takes; n = 0 when the head is malformed (bad lead byte, missing or bad
\* continuation byte, overlong form, surrogate, beyond U+10FFFF).
utf8_head(b) ==
  LET b1 == b[1]
      n == IF b1 < 128 THEN 1
           ELSE IF b1 >= 194 /\ b1 <= 223 THEN 2
           ELSE IF b1 >= 224 /\ b1 <= 239 THEN 3
           ELSE IF b1 >= 240 /\ b1 <= 244 THEN 4
           ELSE 0
      conts == n >= 1 /\ Len(b) >= n /\ \A i \in 2 .. n : IsContinuation(b[i])
      c == IF ~conts THEN 0
           ELSE IF n = 1 THEN b1
           ELSE IF n = 2 THEN (b1 - 192) * 64 + (b[2] - 128)
           ELSE IF n = 3 THEN (b1 - 224) * 4096 + (b[2] - 128) * 64 + (b[3] - 128)
           ELSE (b1 - 240) * 262144 + (b[2] - 128) * 4096
                  + (b[3] - 128) * 64 + (b[4] - 128)
      valid == /\ conts
               /\ (n = 2 => c >= 128)
               /\ (n = 3 => c >= 2048 /\ ~IsSurrogate(c))
               /\ (n = 4 => c >= 65536 /\ c <= 1114111)
  IN  [n |-> IF valid THEN n ELSE 0, c |-> c]

\* The code points of a UTF-8 byte sequence; fails on malformed input.
RECURSIVE utf8_code_points(_)
utf8_code_points(b) ==
  IF b = <<>> THEN Ok(<<>>)
  ELSE LET h == utf8_head(b)
       IN  IF h.n = 0 THEN Fail
           ELSE LET rest == utf8_code_points(SubSeq(b, h.n + 1, Len(b)))
                IN  IF rest.ok THEN Ok(<<h.c>> \o rest.val) ELSE Fail

\* string(const std::string&): construction from utf-8.
string_from_utf8(b) ==
  LET cps == utf8_code_points(b)
  IN  IF cps.ok THEN Ok(to_wide(cps.val)) ELSE Fail

\* "café", "a", U+1F600, and malformed sequences: a lone lead byte, an overlong
\* form, an encoded surrogate, an invalid byte, a code point beyond U+10FFFF.
Utf8Inputs ==
  { <<99, 97, 102, 195, 169>>, <<97>>, <<240, 159, 152, 128>>,
    <<195>>, <<192, 128>>, <<237, 160, 128>>, <<255>>, <<244, 144, 128, 128>> }

\* Wide texts: those of the code point sequences, and two with unpaired surrogates.
WideInputs ==
  { to_wide(S) : S \in CodePointSeqs } \cup { <<55296>>, <<56320, 65>> }

NoStr == [op |-> "none", from |-> "none", orig |-> <<>>, given |-> <<>>]

\* string(const std::wstring &other) : std::wstring(other)
StringFromWide(other) ==
  /\ wstr' = other
  /\ utf8' = <<>>
  /\ strpc' = [op |-> "wide", from |-> "wide", orig |-> other, given |-> <<>>]
  /\ UNCHANGED <<mem, bytesVars, guidVars, errVars>>

\* string(const std::string&) on bytes supplied by the caller.
StringFromUtf8(b) ==
  LET r == string_from_utf8(b)
  IN  /\ wstr' = r.val
      /\ utf8' = <<>>
      /\ strpc' = [op |-> IF r.ok THEN "utf8" ELSE "error", from |-> "utf8",
                    orig |-> <<>>, given |-> b]
      /\ UNCHANGED <<mem, bytesVars, guidVars, errVars>>

\* std::string utf8 = str;
StringToUtf8 ==
  /\ strpc.op \in {"wide", "utf8"}
  /\ LET r == string_to_utf8(wstr)
     IN  /\ utf8' = r.val
         /\ strpc' = [strpc EXCEPT !.op = IF r.ok THEN "to_utf8" ELSE "error"]
  /\ UNCHANGED <<wstr, mem, bytesVars, guidVars, errVars>>

\* string back(utf8); on the bytes the conversion produced.
StringRoundTrip ==
  /\ strpc.op = "to_utf8"
  /\ LET r == string_from_utf8(utf8)
     IN  /\ wstr' = r.val
         /\ strpc' = [strpc EXCEPT !.op = IF r.ok THEN "back" ELSE "error"]
  /\ UNCHANGED <<utf8, mem, bytesVars, guidVars, errVars>>

(***************************************************************************)
(* Specifications.                                                         *)
(***************************************************************************)
InitIdle ==
  /\ view = bytes_default
  /\ call = NoCall
  /\ m_data = GUID_default
  /\ guid = NoGuid
  /\ exc = NoExc
  /\ thrown = NoExc
  /\ depth = 0
  /\ wstr = <<>>
  /\ utf8 = <<>>
  /\ strpc = NoStr

Init == mem \in Memories /\ InitIdle

NextBytes ==
  \/ \E b \in Addr, e \in Addr : BytesFromRange(b, e)
  \/ \E p \in Addr, n \in Addr : BytesFromPtrLen(p, n)
  \/ \E s \in {NULL} \cup TextPtrs : BytesFromText(s)
  \/ \E p \in Addr, n \in Addr : BytesFromPair(<<p, n>>)
  \/ BytesDefault

SpecBytes == Init /\ [][NextBytes]_vars

\* The GUID and string operations read no caller memory.
InitZeroMem == mem = [p \in TextPtrs |-> 0] /\ InitIdle

NextGuid ==
  \/ GuidCtorDefault
  \/ \E t \in GuidTexts, j \in JunkBytes, u \in Uninitialized : GuidCtorText(t, j, u)
  \/ \E t \in GuidTexts, j \in JunkBytes : GuidAssign(t, j)
  \/ \E id \in GeneratedIds : GuidGenerate(id)

SpecGuid == InitZeroMem /\ [][NextGuid]_vars

NextErr ==
  \/ \E p \in {NULL} \cup TextPtrs : ThrowError(p)
  \/ \E e \in ForeignExceptions : ThrowForeign(e)
  \/ Boundary
  \/ Handled

SpecErr == Init /\ [][NextErr]_vars

NextStr ==
  \/ \E w \in WideInputs : StringFromWide(w)
  \/ \E b \in Utf8Inputs : StringFromUtf8(b)
  \/ StringToUtf8
  \/ StringRoundTrip

SpecStr == InitZeroMem /\ [][NextStr]_vars

(***************************************************************************)
(* Properties.                                                             *)
(***************************************************************************)
\* The difference of two pointers, compared with a size_t.
ptr_diff(p, q) == to_size_t(p - q)

\* t truncated to GuidSize bytes and zero-padded to GuidSize bytes.
PadTrunc(t) == [i \in 1 .. GuidSize |-> IF i <= Len(t) THEN t[i] ELSE 0]

\* n is the number of bytes of memory before the first terminator at or after str.
IsTextLength(str, n) ==
  /\ str + n <= MemSize
  /\ mem[str + n] = 0
  /\ \A i \in 0 .. (n - 1) : mem[str + i] # 0

\* C1 as stated: whatever the constructor, a null source pointer gives length() = 0,
\* whatever length argument was passed.
C1_NullSourceLengthZero ==
  (call.ctor # "none" /\ call.a = NULL) => length(view) = 0

\* C1 amended: a null source pointer gives length() = 0 for the text constructor and
\* the default constructor; the (pointer, length) and pair constructors give
\* length() = the length argument as passed, also when the pointer is null, and the
\* two-pointer constructor with a null begin pointer gives length() = the end
\* pointer's distance from null, 0 only when the end pointer is null too.
C1_NullSourceLength ==
  /\ (call.ctor \in {"cstr", "default"} /\ call.a = NULL) => length(view) = 0
  /\ call.ctor \in {"ptr_len", "pair"} => length(view) = call.b
  /\ (call.ctor = "ptr_ptr" /\ call.a = NULL) => length(view) = ptr_diff(call.b, NULL)

C1_Witness ==
  /\ call.ctor = "ptr_len"
  /\ call.a = NULL
  /\ call.b = 3
  /\ length(view) = 3

\* C2: for every bytes view (the two-pointer constructor given endPtr >= beginPtr),
\* end() - begin() = length() and size() = length(); for the two-pointer constructor
\* begin() and end() are the two pointers given.
C2_EndMinusBeginIsLength ==
  (call.ctor # "none" /\ (call.ctor = "ptr_ptr" => call.b >= call.a)) =>
    /\ ptr_diff(end(view), begin(view)) = length(view)
    /\ size(view) = length(view)
    /\ call.ctor = "ptr_ptr" => (begin(view) = call.a /\ end(view) = call.b)

C2_Witness ==
  /\ call.ctor = "ptr_ptr"
  /\ call.a = 2
  /\ call.b = 5
  /\ length(view) = 3

\* C3: a view of a null-terminated text begins at the text's first byte and its
\* length is the number of bytes before the first terminator; a view of a null text
\* pointer is the empty view (begin null, length 0).
C3_TextView ==
  call.ctor = "cstr" =>
    IF call.a = NULL
      THEN begin(view) = NULL /\ length(view) = 0
      ELSE begin(view) = call.a /\ IsTextLength(call.a, length(view))

C3_Witness ==
  /\ call.ctor = "cstr"
  /\ call.a # NULL
  /\ length(view) = 2
  /\ mem[call.a] = 97

\* C4 as stated: whatever was thrown inside the guarded block, what leaves a CATCH_AND_WRAP
\* boundary is a mysqlx::Error.
C4_OnlyErrorEscapes ==
  depth >= 1 => exc.type = ErrorType

\* C5: the message of an Error leaving the boundary the thrown exception reaches
\* first is the unchanged message of a thrown Error (the same exception), the what()
\* text of a foreign std::exception, the text of a thrown const char*, and
\* "Unknown exception" for any other type.
C5_EscapingMessage ==
  (depth = 1 /\ exc.type = ErrorType) =>
    /\ thrown.type = ErrorType => exc = thrown
    /\ thrown.type \in StdExceptionTypes =>
         /\ Len(exc.msg) <= Len(thrown.msg)
         /\ \A i \in 1 .. Len(exc.msg) : exc.msg[i] = thrown.msg[i] /\ exc.msg[i] # 0
         /\ Len(exc.msg) < Len(thrown.msg) => thrown.msg[Len(exc.msg) + 1] = 0
    /\ thrown.type = "const char*" =>
         /\ thrown.ptr # NULL
         /\ IsTextLength(thrown.ptr, Len(exc.msg))
         /\ \A i \in 1 .. Len(exc.msg) : exc.msg[i] = mem[thrown.ptr + i - 1]
    /\ thrown.type \in OtherTypes => exc.msg = UnknownException

C5_Witness ==
  /\ depth = 1
  /\ thrown.type = "const char*"
  /\ exc.msg = <<97, 98>>

\* C6 as stated: the text form of a freshly constructed GUID is 32 bytes: 32 zero
\* bytes for GUID(), and for GUID(T) with T shorter than 32 bytes the bytes of T
\* followed by zero bytes.
C6_TextFormZeroPadded ==
  /\ (guid.ctor = "default" /\ guid.ops = 0 /\ ~guid.gen) =>
       GUID_to_string(m_data) = [i \in 1 .. GuidSize |-> 0]
  /\ (guid.ctor = "text" /\ guid.ops = 0 /\ ~guid.gen /\ Len(guid.text) < GuidSize) =>
       GUID_to_string(m_data) = PadTrunc(guid.text)

\* C7: after a construction or an assignment from a text, a text of 32 bytes or
\* more has left exactly its first 32 bytes in the GUID; set() wrote only indexes
\* 0..31 of the buffer and read the text no further than its terminator.
C7_SetStaysInBounds ==
  guid.last = "set" =>
    /\ guid.wr \subseteq GuidIdx
    /\ guid.rd \subseteq 0 .. Len(guid.text)
    /\ Len(guid.text) >= GuidSize =>
         GUID_to_string(m_data) = SubSeq(guid.text, 1, GuidSize)

C7_Witness ==
  /\ guid.last = "set"
  /\ guid.ops >= 1
  /\ Len(guid.text) = GuidSize + 1
  /\ GuidSize \in guid.rd
  /\ guid.wr = GuidIdx

\* C8: a string holding code points S, converted to UTF-8 and constructed again from
\* the resulting bytes, holds S again, and neither conversion fails; a string
\* constructed from valid UTF-8 bytes converts back to the identical bytes.
C8_Utf8RoundTrip ==
  /\ (strpc.from = "wide" /\ strpc.op = "back") => wstr = strpc.orig
  /\ (strpc.from = "wide" /\ strpc.op = "error") =>
       strpc.orig \notin { to_wide(S) : S \in CodePointSeqs }
  /\ (strpc.from = "utf8" /\ strpc.op = "to_utf8") => utf8 = strpc.given

C8_Witness ==
  /\ strpc.from = "wide"
  /\ strpc.op = "back"
  /\ strpc.orig = to_wide(<<128512, 233>>)
  /\ Len(utf8) = 6
  /\ wstr = strpc.orig

\* C9 as stated, for a GUID built by GUID() and then only assigned to: its text
\* form is the last text assigned, truncated to 32 bytes and zero-padded to 32
\* bytes, with no byte left over from an earlier, longer value.
C9_TextFormIsLastText ==
  (guid.ctor = "default" /\ guid.ops >= 1 /\ ~guid.gen) =>
    GUID_to_string(m_data) = PadTrunc(guid.text)

\* C10 as stated: past the first boundary, every further CATCH_AND_WRAP boundary
\* passes the exception on unchanged, kind and message.
C10_RewrapIdempotent ==
  [][(depth >= 1 /\ depth' = depth + 1) => exc' = exc]_vars

====
